---------------------------- MODULE Spec2Model ----------------------------
(***************************************************************************)
(* A model of github.com/JeremyOT/binassets: the per-blob authenticated    *)
(* encryption (Encrypt / Decrypt) and the virtual file system that an      *)
(* AssetCollection exposes (Open, Stat, Read, Seek, Readdir, Close).       *)
(*                                                                         *)
(* Go values are modelled as follows.                                      *)
(*   []byte   a record [nil |-> BOOLEAN, bytes |-> sequence of 0..255]     *)
(*            (Go tells a nil slice from an empty one: a.data == nil)      *)
(*   string   a sequence of one-character strings, so that splitting,      *)
(*            prefix tests and joins are computed and not assumed          *)
(*   int      a two's complement integer of IntWidth bits                  *)
(*   map      a function; a range loop over a map visits the keys in an    *)
(*            order the runtime chooses, so the order is an input          *)
(***************************************************************************)
EXTENDS Integers, Sequences, FiniteSets, Bags, TLC

VARIABLES
    key,        \* the key handed to Encrypt / Decrypt
    buf,        \* the caller's backing array behind Encrypt's data argument
    dataLen,    \* len(data) of Encrypt's data argument (cap(data) = Len(buf))
    msg,        \* the byte buffer handed to Decrypt (a []byte, mutated in place)
    sent,       \* what Encrypt returned for (key, data), before any tampering
    tampered,   \* 1 once msg was overwritten after Encrypt returned it, else 0
    store,      \* the AssetCollection: path -> blob
    files,      \* the *asset values Open handed out, by the caller's variable
    last        \* the last call: its arguments, its pre-state and what it returned

vars == <<key, buf, dataLen, msg, sent, tampered, store, files, last>>

cipherVars == <<key, buf, dataLen, msg, sent, tampered>>

---------------------------------------------------------------------------
(* Bounds of the model *)

\* longest plaintext handed to Encrypt
MaxPlainLen == 17
\* how far past the shortest valid length the raw Decrypt inputs go
MaxExtraLen == 17
\* most keys in an AssetCollection
MaxKeys == 3
\* most blobs in a collection whose Decrypt is called
MaxPacked == 2
\* longest buffer handed to Read
MaxBuf == 2
\* bits of an int (the code runs with 64; the arithmetic is the same)
IntWidth == 8

(* Program constants *)

\* aes.BlockSize
BlockSize == 16
\* sha256.Size
Sha256Size == 32
HashBlockSize == 64

---------------------------------------------------------------------------
(* Bytes and slices *)

Min(a, b) == IF a < b THEN a ELSE b
Max(a, b) == IF a > b THEN a ELSE b

\* a non-nil []byte holding b
Slice(b) == [nil |-> FALSE, bytes |-> b]
\* the nil []byte
NilSlice == [nil |-> TRUE, bytes |-> <<>>]

\* s[lo:hi] on a sequence, with Go's 0-based half-open bounds
Sub(s, lo, hi) == SubSeq(s, lo + 1, hi)

\* a byte pattern of n bytes
Pattern(n, seed, step) == [i \in 1..n |-> (seed + step * i) % 256]

\* the keys handed to Encrypt and Decrypt: of the three lengths AES takes,
\* of a length it refuses, and empty
Keys == {Pattern(n, 40, 3) : n \in {0, 15, 16, 24, 32}}

\* 2 to the power j - 1
Half == <<1, 2, 4, 8, 16, 32, 64, 128>>

\* a ^ b on numbers of n bits, n at most 8: the sum of the bits in which
\* they differ
Xor8(a, b, n) ==
    BagCardinality([j \in 1..n |->
        1 + Half[j] * (((a \div Half[j]) + (b \div Half[j])) % 2)]) - n

\* a & b on bytes: the sum of the bits set in both
And8(a, b) ==
    BagCardinality([j \in 1..8 |->
        1 + Half[j] * (((a \div Half[j]) % 2) * ((b \div Half[j]) % 2))]) - 8

\* a ^ b and a & b for every pair of bytes
XorTable == [a \in 0..255 |-> [b \in 0..255 |-> Xor8(a, b, 8)]]
AndTable == [a \in 0..255 |-> [b \in 0..255 |-> And8(a, b)]]

\* x ^ y on blocks; SubSeq makes the result a sequence of computed bytes
XorBlock(x, y) ==
    SubSeq([i \in 1..BlockSize |-> XorTable[x[i]][y[i]]], 1, BlockSize)

---------------------------------------------------------------------------
(* crypto/aes: the block cipher of FIPS 197, on blocks of BlockSize bytes  *)
(* in the order of the input (byte i is row (i - 1) % 4 of column          *)
(* (i - 1) \div 4 of the state).                                           *)

\* aes.NewCipher(key): fails unless the key has 16, 24 or 32 bytes
ValidKey(k) == Len(k) \in {16, 24, 32}

\* the S-box and its inverse
sbox0 ==
  <<
     99, 124, 119, 123, 242, 107, 111, 197,  48,   1, 103,  43, 254, 215, 171, 118,
    202, 130, 201, 125, 250,  89,  71, 240, 173, 212, 162, 175, 156, 164, 114, 192,
    183, 253, 147,  38,  54,  63, 247, 204,  52, 165, 229, 241, 113, 216,  49,  21,
      4, 199,  35, 195,  24, 150,   5, 154,   7,  18, 128, 226, 235,  39, 178, 117,
      9, 131,  44,  26,  27, 110,  90, 160,  82,  59, 214, 179,  41, 227,  47, 132,
     83, 209,   0, 237,  32, 252, 177,  91, 106, 203, 190,  57,  74,  76,  88, 207,
    208, 239, 170, 251,  67,  77,  51, 133,  69, 249,   2, 127,  80,  60, 159, 168,
     81, 163,  64, 143, 146, 157,  56, 245, 188, 182, 218,  33,  16, 255, 243, 210,
    205,  12,  19, 236,  95, 151,  68,  23, 196, 167, 126,  61, 100,  93,  25, 115,
     96, 129,  79, 220,  34,  42, 144, 136,  70, 238, 184,  20, 222,  94,  11, 219,
    224,  50,  58,  10,  73,   6,  36,  92, 194, 211, 172,  98, 145, 149, 228, 121,
    231, 200,  55, 109, 141, 213,  78, 169, 108,  86, 244, 234, 101, 122, 174,   8,
    186, 120,  37,  46,  28, 166, 180, 198, 232, 221, 116,  31,  75, 189, 139, 138,
    112,  62, 181, 102,  72,   3, 246,  14,  97,  53,  87, 185, 134, 193,  29, 158,
    225, 248, 152,  17, 105, 217, 142, 148, 155,  30, 135, 233, 206,  85,  40, 223,
    140, 161, 137,  13, 191, 230,  66, 104,  65, 153,  45,  15, 176,  84, 187,  22
  >>
sbox1 ==
  <<
     82,   9, 106, 213,  48,  54, 165,  56, 191,  64, 163, 158, 129, 243, 215, 251,
    124, 227,  57, 130, 155,  47, 255, 135,  52, 142,  67,  68, 196, 222, 233, 203,
     84, 123, 148,  50, 166, 194,  35,  61, 238,  76, 149,  11,  66, 250, 195,  78,
      8,  46, 161, 102,  40, 217,  36, 178, 118,  91, 162,  73, 109, 139, 209,  37,
    114, 248, 246, 100, 134, 104, 152,  22, 212, 164,  92, 204,  93, 101, 182, 146,
    108, 112,  72,  80, 253, 237, 185, 218,  94,  21,  70,  87, 167, 141, 157, 132,
    144, 216, 171,   0, 140, 188, 211,  10, 247, 228,  88,   5, 184, 179,  69,   6,
    208,  44,  30, 143, 202,  63,  15,   2, 193, 175, 189,   3,   1,  19, 138, 107,
     58, 145,  17,  65,  79, 103, 220, 234, 151, 242, 207, 206, 240, 180, 230, 115,
    150, 172, 116,  34, 231, 173,  53, 133, 226, 249,  55, 232,  28, 117, 223, 110,
     71, 241,  26, 113,  29,  41, 197, 137, 111, 183,  98,  14, 170,  24, 190,  27,
    252,  86,  62,  75, 198, 210, 121,  32, 154, 219, 192, 254, 120, 205,  90, 244,
     31, 221, 168,  51, 136,   7, 199,  49, 177,  18,  16,  89,  39, 128, 236,  95,
     96,  81, 127, 169,  25, 181,  74,  13,  45, 229, 122, 159, 147, 201, 156, 239,
    160, 224,  59,  77, 174,  42, 245, 176, 200, 235, 187,  60, 131,  83, 153,  97,
     23,  43,   4, 126, 186, 119, 214,  38, 225, 105,  20,  99,  85,  33,  12, 125
  >>

\* the round constants: powers of x in GF(2^8)
powx == <<1, 2, 4, 8, 16, 32, 64, 128, 27, 54>>

\* multiplication in GF(2^8) modulo x^8 + x^4 + x^3 + x + 1 by the
\* coefficients of MixColumns and of its inverse
Mul2 == [a \in 0..255 |-> XorTable[(2 * a) % 256][IF a >= 128 THEN 27 ELSE 0]]
Mul3 == [a \in 0..255 |-> XorTable[Mul2[a]][a]]
Mul4 == [a \in 0..255 |-> Mul2[Mul2[a]]]
Mul8 == [a \in 0..255 |-> Mul2[Mul4[a]]]
Mul9 == [a \in 0..255 |-> XorTable[Mul8[a]][a]]
Mul11 == [a \in 0..255 |-> XorTable[Mul9[a]][Mul2[a]]]
Mul13 == [a \in 0..255 |-> XorTable[Mul9[a]][Mul4[a]]]
Mul14 == [a \in 0..255 |-> XorTable[XorTable[Mul8[a]][Mul4[a]]][Mul2[a]]]

\* the key expansion: x[1] is the expanded key so far, x[2] the length of
\* the key; every step adds one word of four bytes until there are
\* BlockSize bytes for each of the Nk + 7 round keys
ExpandKey[x \in Seq(Nat) \X Nat] ==
    LET w == x[1]
        len == Len(w)
        nk == x[2] \div 4
        i == len \div 4
        t == IF i % nk = 0
             THEN <<XorTable[sbox0[w[len - 2] + 1]][powx[i \div nk]],
                    sbox0[w[len - 1] + 1], sbox0[w[len] + 1],
                    sbox0[w[len - 3] + 1]>>
             ELSE IF nk > 6 /\ i % nk = 4
                  THEN <<sbox0[w[len - 3] + 1], sbox0[w[len - 2] + 1],
                         sbox0[w[len - 1] + 1], sbox0[w[len] + 1]>>
                  ELSE SubSeq(w, len - 3, len)
    IN  IF len >= BlockSize * (nk + 7) THEN w
        ELSE ExpandKey[<<w \o [j \in 1..4 |-> XorTable[w[len - x[2] + j]][t[j]]],
                         x[2]>>]

\* the cipher.Block of aes.NewCipher(k), k a valid key: its expanded key of
\* 176, 208 or 240 bytes
NewCipher(k) == ExpandKey[<<k, Len(k)>>]

\* the r-th round key
RoundKey(xk, r) == SubSeq(xk, BlockSize * r + 1, BlockSize * (r + 1))

SubBytes(s) == [i \in 1..BlockSize |-> sbox0[s[i] + 1]]
InvSubBytes(s) == [i \in 1..BlockSize |-> sbox1[s[i] + 1]]
\* row r moves r columns to the left, and back
ShiftRows(s) ==
    [i \in 1..BlockSize |-> s[((i - 1 + 4 * ((i - 1) % 4)) % BlockSize) + 1]]
InvShiftRows(s) ==
    [i \in 1..BlockSize |-> s[((i - 1 + 12 * ((i - 1) % 4)) % BlockSize) + 1]]
\* the byte d rows below byte i in its column
Col(s, i, d) == s[4 * ((i - 1) \div 4) + ((i - 1 + d) % 4) + 1]
MixColumns(s) ==
    SubSeq([i \in 1..BlockSize |->
               XorTable[XorTable[Mul2[Col(s, i, 0)]][Mul3[Col(s, i, 1)]]]
                       [XorTable[Col(s, i, 2)][Col(s, i, 3)]]], 1, BlockSize)
InvMixColumns(s) ==
    SubSeq([i \in 1..BlockSize |->
               XorTable[XorTable[Mul14[Col(s, i, 0)]][Mul11[Col(s, i, 1)]]]
                       [XorTable[Mul13[Col(s, i, 2)]][Mul9[Col(s, i, 3)]]]],
           1, BlockSize)

\* the rounds of the cipher from round x[3] on: x[1] is the state, x[2] the
\* expanded key; the last round has no MixColumns
EncRounds[x \in Seq(Nat) \X Seq(Nat) \X Nat] ==
    LET nr == (Len(x[2]) \div BlockSize) - 1
        t == ShiftRows(SubBytes(x[1]))
    IN  IF x[3] = nr THEN XorBlock(t, RoundKey(x[2], nr))
        ELSE EncRounds[<<XorBlock(MixColumns(t), RoundKey(x[2], x[3])),
                         x[2], x[3] + 1>>]

\* block.Encrypt(dst, b)
EncryptBlock(block, b) == EncRounds[<<XorBlock(b, RoundKey(block, 0)), block, 1>>]

\* the rounds of the inverse cipher from round x[3] down
DecRounds[x \in Seq(Nat) \X Seq(Nat) \X Nat] ==
    LET t == XorBlock(InvSubBytes(InvShiftRows(x[1])), RoundKey(x[2], x[3]))
    IN  IF x[3] = 0 THEN t
        ELSE DecRounds[<<InvMixColumns(t), x[2], x[3] - 1>>]

\* block.Decrypt(dst, c)
DecryptBlock(block, c) ==
    LET nr == (Len(block) \div BlockSize) - 1
    IN  DecRounds[<<XorBlock(c, RoundKey(block, nr)), block, nr - 1>>]

RECURSIVE CBCEncrypt(_, _, _)
RECURSIVE Chained(_, _, _)
\* cipher.NewCBCEncrypter(block, iv).CryptBlocks(dst, src): src is a whole
\* number of blocks; each block is XORed with the previous ciphertext block
CBCEncrypt(block, iv, src) ==
    IF src = <<>> THEN <<>>
    ELSE Chained(block,
                 EncryptBlock(block, XorBlock(Sub(src, 0, BlockSize), iv)),
                 Sub(src, BlockSize, Len(src)))
\* the ciphertext block c, which is the iv of the blocks after it
Chained(block, c, rest) == c \o CBCEncrypt(block, c, rest)

RECURSIVE CBCDecrypt(_, _, _)
\* cipher.NewCBCDecrypter(block, iv).CryptBlocks(dst, src)
CBCDecrypt(block, iv, src) ==
    IF src = <<>> THEN <<>>
    ELSE LET c == Sub(src, 0, BlockSize)
         IN  XorBlock(DecryptBlock(block, c), iv)
                 \o CBCDecrypt(block, c, Sub(src, BlockSize, Len(src)))

---------------------------------------------------------------------------
(* crypto/sha256: the hash of FIPS 180-4.  A word of 32 bits is the pair   *)
(* <<high, low>> of its halves of 16 bits, so that no sum passes 2^31.     *)

\* 2 to the power r
Shift == [r \in 0..16 |-> 2^r]

Xor16(a, b) == XorTable[a \div 256][b \div 256] * 256 + XorTable[a % 256][b % 256]
And16(a, b) == AndTable[a \div 256][b \div 256] * 256 + AndTable[a % 256][b % 256]
Xor32(x, y) == <<Xor16(x[1], y[1]), Xor16(x[2], y[2])>>
And32(x, y) == <<And16(x[1], y[1]), And16(x[2], y[2])>>
Not32(x) == <<65535 - x[1], 65535 - x[2]>>
\* x + y modulo 2^32
Add32(x, y) ==
    LET lo == x[2] + y[2]
    IN  <<(x[1] + y[1] + (lo \div 65536)) % 65536, lo % 65536>>
\* the word of halves hi and lo rotated right by r < 16 bits
RotHalf(hi, lo, r) ==
    <<(hi \div Shift[r]) + (lo % Shift[r]) * Shift[16 - r],
      (lo \div Shift[r]) + (hi % Shift[r]) * Shift[16 - r]>>
\* bits.RotateLeft32(x, -r)
RotR(x, r) ==
    IF r < 16 THEN RotHalf(x[1], x[2], r) ELSE RotHalf(x[2], x[1], r - 16)
\* x >> r, r < 16
ShR(x, r) ==
    <<x[1] \div Shift[r], (x[2] \div Shift[r]) + (x[1] % Shift[r]) * Shift[16 - r]>>

\* the round constants (_K) and the initial hash value (init0 .. init7)
K256 ==
  <<
    <<17034, 12184>>, <<28983, 17553>>, <<46528, 64463>>, <<59829, 56229>>,
    <<14678, 49755>>, <<23025, 4593>>, <<37439, 33444>>, <<43804, 24277>>,
    <<55303, 43672>>, <<4739, 23297>>, <<9265, 34238>>, <<21772, 32195>>,
    <<29374, 23924>>, <<32990, 45566>>, <<39900, 1703>>, <<49563, 61812>>,
    <<58523, 27073>>, <<61374, 18310>>, <<4033, 40390>>, <<9228, 41420>>,
    <<11753, 11375>>, <<19060, 33962>>, <<23728, 43484>>, <<30457, 35034>>,
    <<38974, 20818>>, <<43057, 50797>>, <<45059, 10184>>, <<48985, 32711>>,
    <<50912, 3059>>, <<54695, 37191>>, <<1738, 25425>>, <<5161, 10599>>,
    <<10167, 2693>>, <<11803, 8504>>, <<19756, 28156>>, <<21304, 3347>>,
    <<25866, 29524>>, <<30314, 2747>>, <<33218, 51502>>, <<37490, 11397>>,
    <<41663, 59553>>, <<43034, 26187>>, <<49739, 35696>>, <<51052, 20899>>,
    <<53650, 59417>>, <<54937, 1572>>, <<62478, 13701>>, <<4202, 41072>>,
    <<6564, 49430>>, <<7735, 27656>>, <<10056, 30540>>, <<13488, 48309>>,
    <<14620, 3251>>, <<20184, 43594>>, <<23452, 51791>>, <<26670, 28659>>,
    <<29839, 33518>>, <<30885, 25455>>, <<33992, 30740>>, <<36039, 520>>,
    <<37054, 65530>>, <<42064, 27883>>, <<48889, 41975>>, <<50801, 30962>>
  >>
InitHash ==
  <<
    <<27145, 58983>>, <<47975, 44677>>, <<15470, 62322>>, <<42319, 62778>>,
    <<20750, 21119>>, <<39685, 26764>>, <<8067, 55723>>, <<23520, 52505>>
  >>

BSig0(x) == Xor32(Xor32(RotR(x, 2), RotR(x, 13)), RotR(x, 22))
BSig1(x) == Xor32(Xor32(RotR(x, 6), RotR(x, 11)), RotR(x, 25))
SSig0(x) == Xor32(Xor32(RotR(x, 7), RotR(x, 18)), ShR(x, 3))
SSig1(x) == Xor32(Xor32(RotR(x, 17), RotR(x, 19)), ShR(x, 10))
Ch(e, f, g) == Xor32(And32(e, f), And32(Not32(e), g))
Maj(a, b, c) == Xor32(Xor32(And32(a, b), And32(a, c)), And32(b, c))

WordSeq == Seq(Seq(Nat))

\* the message schedule: the 16 words of a block extended to 64
Schedule[w \in WordSeq] ==
    IF Len(w) >= 64 THEN w
    ELSE LET i == Len(w) + 1
         IN  Schedule[Append(w,
                 Add32(Add32(SSig1(w[i - 2]), w[i - 7]),
                       Add32(SSig0(w[i - 15]), w[i - 16])))]

\* one round on the working variables s = <<a, b, c, d, e, f, g, h>>:
\* t1 and t2, and the variables after the round
T1(s, k, w) ==
    Add32(Add32(Add32(s[8], BSig1(s[5])), Ch(s[5], s[6], s[7])), Add32(k, w))
T2(s) == Add32(BSig0(s[1]), Maj(s[1], s[2], s[3]))
Step(s, t1, t2) ==
    <<Add32(t1, t2), s[1], s[2], s[3], Add32(s[4], t1), s[5], s[6], s[7]>>
Round(s, k, w) == Step(s, T1(s, k, w), T2(s))

\* the rounds from round x[3] on: x[1] holds the working variables, x[2]
\* the schedule
Rounds[x \in WordSeq \X WordSeq \X Nat] ==
    IF x[3] > 64 THEN x[1]
    ELSE Rounds[<<Round(x[1], K256[x[3]], x[2][x[3]]), x[2], x[3] + 1>>]

\* the 16 big-endian words of a block of HashBlockSize bytes
Words(p) ==
    [i \in 1..16 |->
        <<p[4 * i - 3] * 256 + p[4 * i - 2], p[4 * i - 1] * 256 + p[4 * i]>>]

\* the working variables s added to the hash value h, word by word
AddWords(h, s) ==
    <<Add32(h[1], s[1]), Add32(h[2], s[2]), Add32(h[3], s[3]),
      Add32(h[4], s[4]), Add32(h[5], s[5]), Add32(h[6], s[6]),
      Add32(h[7], s[7]), Add32(h[8], s[8])>>

\* the hash value h after the block p (blockGeneric, one block)
Block(h, p) == AddWords(h, Rounds[<<h, Schedule[Words(p)], 1>>])

\* the hash value x[1] after the blocks x[2]
Blocks[x \in WordSeq \X Seq(Nat)] ==
    IF Len(x[2]) = 0 THEN x[1]
    ELSE Blocks[<<Block(x[1], Sub(x[2], 0, HashBlockSize)),
                  Sub(x[2], HashBlockSize, Len(x[2]))>>]

\* what Sum appends to a message of len bytes: 0x80, zeros up to 56 modulo
\* 64, and the length in bits as 8 big-endian bytes
Pad(len) ==
    <<128>> \o [i \in 1..((119 - (len % 64)) % 64) |-> 0]
            \o <<0, 0, 0, 0, (len \div 2097152) % 256, (len \div 8192) % 256,
                 (len \div 32) % 256, (len * 8) % 256>>

\* the hash value as Sha256Size big-endian bytes
Digest(h) ==
    [i \in 1..Sha256Size |->
        LET w == h[((i - 1) \div 4) + 1]
            j == (i - 1) % 4
        IN  IF j = 0 THEN w[1] \div 256
            ELSE IF j = 1 THEN w[1] % 256
            ELSE IF j = 2 THEN w[2] \div 256
            ELSE w[2] % 256]

\* sha256: h.Write(m); h.Sum(nil)
Sha256(m) == Digest(Blocks[<<InitHash, m \o Pad(Len(m))>>])

---------------------------------------------------------------------------
(* crypto/hmac *)

\* the key as hmac.New lays it out: a key longer than the block size of the
\* hash is replaced by its digest, the key is filled with zeros to the
\* block size, and each byte is XORed with pad
PadKey(k0, pad) ==
    [i \in 1..HashBlockSize |->
        IF i <= Len(k0) THEN XorTable[k0[i]][pad] ELSE pad]
KeyXor(k, pad) ==
    PadKey(IF Len(k) > HashBlockSize THEN Sha256(k) ELSE k, pad)

\* hmac.New writes the key XOR 0x36 into the inner hash and the key XOR 0x5c
\* into the outer one: the hash values after that block, for the keys above
KeyStates ==
    [x \in {k \in Keys : Len(k) > 0} \X {54, 92} |->
        Block(InitHash, KeyXor(x[1], x[2]))] @@ <<>>
KeyState(k, pad) ==
    IF <<k, pad>> \in DOMAIN KeyStates THEN KeyStates[<<k, pad>>]
    ELSE Block(InitHash, KeyXor(k, pad))

\* hmac.New(sha256.New, key); mac.Write(m); mac.Sum(nil): the digest of the
\* key XOR 0x5c followed by the digest of the key XOR 0x36 followed by m
HMAC(k, m) ==
    LET inner == Digest(Blocks[<<KeyState(k, 54),
                                  m \o Pad(HashBlockSize + Len(m))>>])
    IN  Digest(Blocks[<<KeyState(k, 92),
                        inner \o Pad(HashBlockSize + Sha256Size)>>])

---------------------------------------------------------------------------
(* Encrypt and Decrypt *)

\* padding byte count of PKCS#7, as Encrypt computes it
PaddingNoFullBlock(n) == (BlockSize - (n % BlockSize)) % BlockSize
Padding(n) == BlockSize - (n % BlockSize)

\* for i := 0; i < padding; i++ { data = append(data, byte(padding)) }
\* seen from the function: the padded data
Padded(data, padding) == data \o [i \in 1..padding |-> padding]

\* the same loop seen from the caller: append writes into the caller's
\* backing array while len(data) < cap(data) and moves to a new array after
AppendInPlace(backing, n, padding) ==
    [i \in 1..Len(backing) |->
        IF i > n /\ i <= n + padding THEN padding ELSE backing[i]]

\* ciphertext = append(ciphertext, mac.Sum(nil)...)
Sealed(k, ciphertext) == ciphertext \o HMAC(k, ciphertext)

\* Encrypt(key, data) with data = backing[0:n], cap(data) = Len(backing);
\* rnd is what io.ReadFull(rand.Reader, iv) does: its error and the bytes
\* it put into iv
Encrypt(k, backing, n, rnd) ==
    IF ~ValidKey(k)
    THEN [output |-> NilSlice, err |-> "KeySizeError", backing |-> backing]
    ELSE LET block == NewCipher(k)
             padding == Padding(n)
             data == Padded(Sub(backing, 0, n), padding)
             ciphertext == rnd.iv \o CBCEncrypt(block, rnd.iv, data)
         IN  IF rnd.err # "nil"
             THEN [output |-> NilSlice, err |-> rnd.err,
                   backing |-> AppendInPlace(backing, n, padding)]
             ELSE [output |-> Slice(Sealed(k, ciphertext)),
                   err |-> "nil",
                   backing |-> AppendInPlace(backing, n, padding)]

\* the length test Decrypt starts with
BadLength(n) ==
    n < BlockSize * 2 + Sha256Size \/ (n - Sha256Size) % BlockSize # 0

\* hmac.Equal(expectedMac, data[len(data)-sha256.Size:])
MacOKPrefix(k, d) ==
    Sub(HMAC(k, Sub(d, 0, Len(d) - Sha256Size)), 0, 1) = Sub(d, Len(d) - Sha256Size, Len(d) - Sha256Size + 1)
MacOK(k, d) ==
    HMAC(k, Sub(d, 0, Len(d) - Sha256Size)) = Sub(d, Len(d) - Sha256Size, Len(d))

\* ciphertext[:len(ciphertext)-int(ciphertext[len(ciphertext)-1])]; a negative
\* bound is a run-time panic (slice bounds out of range)
StripKeep(p) == [output |-> Slice(p), err |-> "nil"]
Strip(p) ==
    LET n == Len(p) - p[Len(p)]
    IN  IF n < 0 THEN [output |-> NilSlice, err |-> "panic"]
        ELSE [output |-> Slice(Sub(p, 0, n)), err |-> "nil"]

\* CryptBlocks has left plain between the IV and the tag of the caller's
\* buffer d: what Decrypt returns, and the buffer
Opened(d, plain) ==
    [output |-> Strip(plain).output, err |-> Strip(plain).err,
     data |-> Slice(Sub(d, 0, BlockSize) \o plain
                        \o Sub(d, Len(d) - Sha256Size, Len(d)))]

\* Decrypt with the key examined before the length of the data
DecryptKeyFirst(k, data) ==
    LET d == data.bytes
        n == Len(d)
    IN  IF ~ValidKey(k)
        THEN [output |-> NilSlice, err |-> "KeySizeError", data |-> data]
        ELSE IF BadLength(n)
        THEN [output |-> NilSlice, err |-> "Invalid data length", data |-> data]
        ELSE IF ~MacOK(k, d)
        THEN [output |-> NilSlice, err |-> "Invalid HMAC", data |-> data]
        ELSE Opened(d, CBCDecrypt(NewCipher(k), Sub(d, 0, BlockSize),
                                  Sub(d, BlockSize, n - Sha256Size)))

\* Decrypt(key, data): data.bytes is the caller's buffer, which CryptBlocks
\* overwrites in place; the result's data field is that buffer after the call
Decrypt(k, data) ==
    LET d == data.bytes
        n == Len(d)
    IN  IF BadLength(n)
        THEN [output |-> NilSlice, err |-> "Invalid data length", data |-> data]
        ELSE IF ~ValidKey(k)
        THEN [output |-> NilSlice, err |-> "KeySizeError", data |-> data]
        ELSE IF ~MacOK(k, d)
        THEN [output |-> NilSlice, err |-> "Invalid HMAC", data |-> data]
        ELSE Opened(d, CBCDecrypt(NewCipher(k), Sub(d, 0, BlockSize),
                                  Sub(d, BlockSize, n - Sha256Size)))

---------------------------------------------------------------------------
(* Inputs of the cipher *)

Plains == {Pattern(n, 250, 1) : n \in 0..MaxPlainLen}
\* bytes of the caller's array after the plaintext (spare capacity): fewer
\* than any padding but the shortest, or more than the longest
Spares == {Pattern(n, 99, 0) : n \in {3, 20}}
\* the plaintext lengths that are tried with spare capacity: those with
\* the longest and the shortest padding and their neighbours
SpareLens == {0, 1, BlockSize - 1, BlockSize}
\* the caller's array and the length of the plaintext in it
Buffers ==
    {[array |-> p, len |-> Len(p)] : p \in Plains}
    \cup {[array |-> p \o sp, len |-> Len(p)] :
            p \in {q \in Plains : Len(q) \in SpareLens}, sp \in Spares}
IVs == {Pattern(BlockSize, 0, 0), Pattern(BlockSize, 200, 5)}
\* io.ReadFull(rand.Reader, iv): the 16 bytes read, or an error of the
\* reader with iv filled in part
Delivered(iv) == [err |-> "nil", iv |-> iv]
RandReads ==
    {Delivered(iv) : iv \in IVs}
    \cup {[err |-> "ReadError", iv |-> Pattern(BlockSize, 200, 0)]}
\* lengths of byte strings handed to Decrypt that Encrypt did not produce
RawLens == 0..(BlockSize * 2 + Sha256Size + MaxExtraLen)

NoCall == [op |-> "none"]

\* the cipher is exercised alone: no store, no file
InitCipherEncrypt ==
    /\ key \in Keys
    /\ \E b \in Buffers : buf = b.array /\ dataLen = b.len
    /\ msg = NilSlice
    /\ sent = NilSlice
    /\ tampered = 0
    /\ store = <<>>
    /\ files = <<>>
    /\ last = NoCall

\* a byte string from elsewhere: arbitrary bytes, with or without a tag
\* computed under the key
InitCipherRaw ==
    /\ key \in Keys
    /\ buf = <<>>
    /\ dataLen = 0
    /\ \E n \in RawLens, tagged \in BOOLEAN :
          LET body == Pattern(n - Sha256Size, 17, 11)
          IN  msg = IF tagged /\ n >= Sha256Size
                    THEN Slice(body \o HMAC(key, body))
                    ELSE Slice(Pattern(n, 17, 11))
    /\ sent = NilSlice
    /\ tampered = 0
    /\ store = <<>>
    /\ files = <<>>
    /\ last = [op |-> "Supply"]

\* the last bytes given to data that is encrypted without Encrypt's padding
ForgedPads == {0, 1, 16, 17, 255}

\* IV, CBC encryption and tag as Encrypt lays them out, over blocks that
\* somebody holding the key chose freely: the last byte need be no padding
\* count
Forge(k, iv, blocks) ==
    Slice(Sealed(k, iv \o CBCEncrypt(NewCipher(k), iv, blocks)))

\* a byte string made with the key, but not by Encrypt
InitCipherForged ==
    /\ key \in {k \in Keys : ValidKey(k)}
    /\ buf = <<>>
    /\ dataLen = 0
    /\ \E nb \in 1..2, pad \in ForgedPads, iv \in IVs :
          msg = Forge(key, iv,
                      [Pattern(nb * BlockSize, 5, 3) EXCEPT ![nb * BlockSize] = pad])
    /\ sent = NilSlice
    /\ tampered = 0
    /\ store = <<>>
    /\ files = <<>>
    /\ last = [op |-> "Supply"]

InitCipher == InitCipherEncrypt \/ InitCipherRaw \/ InitCipherForged

\* output, err := Encrypt(key, buf[:dataLen])
DoEncrypt ==
    /\ last.op = "none"
    /\ \E rnd \in RandReads :
          \E r \in {Encrypt(key, buf, dataLen, rnd)} :
              /\ buf' = r.backing
              /\ msg' = r.output
              /\ sent' = r.output
              /\ last' = [op |-> "Encrypt", rnd |-> rnd, before |-> buf,
                          output |-> r.output, err |-> r.err]
    /\ UNCHANGED <<key, dataLen, tampered, store, files>>

\* positions worth overwriting: the ends of the IV, of the CBC ciphertext
\* and of the tag
TamperPositions(n) ==
    {1, BlockSize, BlockSize + 1, n - Sha256Size, n - Sha256Size + 1, n}

\* somebody flips the lowest bit of a byte of the stored ciphertext, or
\* exchanges the two bytes where the IV meets the CBC part or the CBC part
\* meets the tag, or raises the first byte of the CBC part by one and lowers
\* the second by one
Tamper ==
    /\ last.op \in {"Encrypt", "Tamper"}
    /\ ~msg.nil
    /\ tampered = 0
    /\ \/ \E pos \in TamperPositions(Len(msg.bytes)) :
             msg' = Slice([msg.bytes EXCEPT ![pos] = Xor8(@, 1, 8)])
       \/ \E pos \in {BlockSize, Len(msg.bytes) - Sha256Size} :
             msg' = Slice([msg.bytes EXCEPT ![pos] = msg.bytes[pos + 1],
                                           ![pos + 1] = msg.bytes[pos]])
       \/ msg' = Slice([msg.bytes EXCEPT ![BlockSize + 1] = (@ + 1) % 256,
                                         ![BlockSize + 2] = (@ + 255) % 256])
    /\ tampered' = 1
    /\ last' = [op |-> "Tamper"]
    /\ UNCHANGED <<key, buf, dataLen, sent, store, files>>

\* output, err := Decrypt(key, msg)
DoDecrypt ==
    /\ last.op \in {"Encrypt", "Tamper", "Supply"}
    /\ \E r \in {Decrypt(key, msg)} :
           /\ msg' = r.data
           /\ last' = [op |-> "Decrypt", input |-> msg,
                       output |-> r.output, err |-> r.err]
    /\ UNCHANGED <<key, buf, dataLen, sent, tampered, store, files>>

NextCipher == DoEncrypt \/ Tamper \/ DoDecrypt

SpecCipher == InitCipher /\ [][NextCipher]_vars

---------------------------------------------------------------------------
(* Go's int *)

RECURSIVE Pow2(_)
Pow2(n) == IF n = 0 THEN 1 ELSE 2 * Pow2(n - 1)

MaxInt == Pow2(IntWidth - 1) - 1
MinInt == 0 - Pow2(IntWidth - 1)

\* what an int holds after an addition whose exact result is x
Wrap(x) == ((x - MinInt) % Pow2(IntWidth)) + MinInt

---------------------------------------------------------------------------
(* strings, path *)

RECURSIVE Split(_, _, _)
\* strings.Split(p, "/"), from position i on, cur being the piece so far
Split(p, i, cur) ==
    IF i > Len(p) THEN <<cur>>
    ELSE IF p[i] = "/" THEN <<cur>> \o Split(p, i + 1, <<>>)
    ELSE Split(p, i + 1, Append(cur, p[i]))

\* pathComponents(p): the pieces of p between slashes that are not empty
pathComponents(p) == SelectSeq(Split(p, 1, <<>>), LAMBDA c : c # <<>>)

\* strings.HasPrefix(s, prefix)
HasPrefix(s, prefix) ==
    Len(s) >= Len(prefix) /\ SubSeq(s, 1, Len(prefix)) = prefix

RECURSIVE Join(_)
\* path.Join(elems...) for elements that are neither empty nor dots, which is
\* what pathComponents delivers for keys without "." and "..": the elements
\* with a slash between them (path.Clean then changes nothing)
Join(elems) ==
    IF elems = <<>> THEN <<>>
    ELSE IF Len(elems) = 1 THEN elems[1]
    ELSE elems[1] \o <<"/">> \o Join(Tail(elems))

\* path.Base(p): the last element of p; "." for the empty path, "/" for a
\* path of slashes only
Base(p) ==
    LET c == pathComponents(p)
    IN  IF p = <<>> THEN <<".">>
        ELSE IF c = <<>> THEN <<"/">>
        ELSE c[Len(c)]

---------------------------------------------------------------------------
(* asset *)

\* &asset{data: d, path: p, assetCollection: ...}: position and readDirOffset
\* start at 0.  The fields seen, got and pure are history kept for the
\* claims: the entries Readdir returned since readDirOffset was last 0, the
\* bytes Read delivered since Open, and whether no Seek has happened since.
NewAsset(p, d) ==
    [path |-> p, data |-> d, position |-> 0, readDirOffset |-> 0,
     seen |-> <<>>, got |-> <<>>, pure |-> TRUE]

\* a caller's variable that holds no *asset yet
NoFile == [path |-> <<>>, data |-> NilSlice, position |-> 0, readDirOffset |-> 0,
           seen |-> <<>>, got |-> <<>>, pure |-> FALSE, none |-> TRUE]

IsOpen(a) == "none" \notin DOMAIN a

\* what Readdir hands out for one entry: the os.FileInfo of a new asset
Entry(p, d) == [path |-> p, data |-> d]

\* func (a *asset) IsDir() bool
IsDir(a) == a.data.nil

\* func (a *asset) Size() int64
Size(a) == IF a.data.nil THEN 0 ELSE Len(a.data.bytes)

\* func (a *asset) Mode() os.FileMode: the directory bit and the permissions
Mode(a) ==
    IF a.data.nil THEN [dir |-> TRUE, perm |-> "0444"]
    ELSE [dir |-> FALSE, perm |-> "0444"]

\* func (a *asset) Name() string
Name(a) == Base(a.path)

\* func (a *asset) Read(p []byte): p is the buffer before the call
ReadCountOneShort(plen, remaining) == Min(plen, Max(remaining - 1, 0))
ReadCount(plen, remaining) == Min(plen, remaining)
Read(a, p) ==
    IF a.position < 0 \/ a.position > Len(a.data.bytes)
    THEN [n |-> 0, err |-> "panic", p |-> p, asset |-> a]
    ELSE LET rest == Sub(a.data.bytes, a.position, Len(a.data.bytes))
             n == ReadCount(Len(p), Len(rest))
         IN  [n |-> n,
              err |-> IF Len(p) > 0 /\ n = 0 THEN "EOF" ELSE "nil",
              p |-> Sub(rest, 0, n) \o Sub(p, n, Len(p)),
              asset |-> [a EXCEPT !.position = a.position + n,
                                  !.got = IF a.pure THEN @ \o Sub(rest, 0, n)
                                          ELSE <<>>]]

\* the position a Seek asks for, before clamping
SeekTarget(a, offset, whence) ==
    CASE whence = 1 -> Wrap(a.position + offset)
      [] whence = 2 -> Wrap(Len(a.data.bytes) + offset)
      [] OTHER -> offset

\* if a.position > len(a.data) {...}; if a.position < 0 {...}
ClampNoFloor(x, n) == IF x > n THEN n ELSE x
Clamp(x, n) ==
    LET y == IF x > n THEN n ELSE x
    IN  IF y < 0 THEN 0 ELSE y

\* func (a *asset) Seek(offset int64, whence int)
Seek(a, offset, whence) ==
    LET pos == Clamp(SeekTarget(a, offset, whence), Len(a.data.bytes))
    IN  [n |-> pos, err |-> "nil",
         asset |-> [a EXCEPT !.position = pos, !.pure = FALSE, !.got = <<>>]]

---------------------------------------------------------------------------
(* AssetCollection *)

\* the orders in which a range loop may visit the elements of S
Perms(S) ==
    {f \in [1..Cardinality(S) -> S] : \A i, j \in DOMAIN f : f[i] = f[j] => i = j}

RECURSIVE MatchFrom(_, _, _)
\* for i, c := range basePath { if c != components[i] { continue FindDirs } }
\* "same", "differ", or "panic" when components[i] is out of range
MatchFrom(basePath, components, i) ==
    IF i > Len(basePath) THEN "same"
    ELSE IF i > Len(components) THEN "panic"
    ELSE IF basePath[i] # components[i] THEN "differ"
    ELSE MatchFrom(basePath, components, i + 1)

\* Open's test of one key: it has more components than the path, and the
\* path's components are its first ones
IsUnderOneDeeper(basePath, components) ==
    /\ Len(components) = Len(basePath) + 1
    /\ MatchFrom(basePath, components, 1) = "same"
IsUnder(basePath, components) ==
    /\ ~(Len(components) <= Len(basePath))
    /\ MatchFrom(basePath, components, 1) = "same"

RECURSIVE OpenScan(_, _, _, _)
\* Open's loop FindDir over the keys, visited in the given order
OpenScan(c, path, order, i) ==
    IF i > Len(order) THEN [asset |-> NoFile, err |-> "ErrNotExist"]
    ELSE IF IsUnder(pathComponents(path), pathComponents(order[i]))
    THEN [asset |-> NewAsset(path, NilSlice), err |-> "nil"]
    ELSE OpenScan(c, path, order, i + 1)

\* func (c AssetCollection) Open(path string)
Open(c, path, order) ==
    IF path \in DOMAIN c
    THEN [asset |-> NewAsset(path, c[path]), err |-> "nil"]
    ELSE OpenScan(c, path, order, 1)

RECURSIVE ReaddirScan(_, _, _, _)
\* Readdir's loop FindDirs over the collection: the leaf entries in the
\* order found, and the set of directory paths (the keys of the map dirs)
ReaddirScan(c, a, order, i) ==
    IF i > Len(order) THEN [files |-> <<>>, dirs |-> {}, panic |-> FALSE]
    ELSE
        LET k == order[i]
            basePath == pathComponents(a.path)
            components == pathComponents(k)
            m == MatchFrom(basePath, components, 1)
            rest == ReaddirScan(c, a, order, i + 1)
        IN  IF k = a.path \/ ~HasPrefix(k, a.path) THEN rest
            ELSE IF m = "panic" THEN [files |-> <<>>, dirs |-> {}, panic |-> TRUE]
            ELSE IF m = "differ" THEN rest
            ELSE IF Len(components) > Len(basePath) + 1
            THEN [rest EXCEPT
                    !.dirs = @ \cup {Join(SubSeq(components, 1, Len(basePath) + 1))}]
            ELSE [rest EXCEPT !.files = <<Entry(k, c[k])>> \o @]

\* the orders the loop FindDirs may take: Readdir returns before it when
\* the asset is no directory
ReaddirOrders(c, a) == IF IsDir(a) THEN Perms(DOMAIN c) ELSE {<<>>}

\* the map dirs that Readdir builds, whose range loop needs an order
ReaddirDirs(c, a) ==
    IF IsDir(a)
    THEN ReaddirScan(c, a, CHOOSE o \in Perms(DOMAIN c) : TRUE, 1).dirs
    ELSE {}

\* Readdir's two loops: the leaf entries in the order the loop over the
\* collection finds them, then one entry per key of dirs in the order of
\* the loop over dirs; panic when an index ran out of range on the way.
ReaddirAll(c, a, order, dorder) ==
    LET scan == ReaddirScan(c, a, order, 1)
    IN  IF scan.panic THEN [panic |-> TRUE, files |-> <<>>]
        ELSE [panic |-> FALSE,
              files |-> scan.files \o
                        [i \in 1..Len(dorder) |-> Entry(dorder[i], NilSlice)]]

\* every list the two loops can build for this asset
Listings(c, a) ==
    {ReaddirAll(c, a, o, d) : o \in ReaddirOrders(c, a), d \in Perms(ReaddirDirs(c, a))}

\* how far a listing moves readDirOffset
Advance(offset, n) == IF n = 0 THEN n ELSE offset + n

\* the end of Readdir: files = files[a.readDirOffset:], the cut to count
\* entries, io.EOF and the new offset
ReaddirPage(a, count, all) ==
    IF all.panic \/ a.readDirOffset > Len(all.files)
    THEN [files |-> <<>>, err |-> "panic", asset |-> a]
    ELSE
        LET tail == Sub(all.files, a.readDirOffset, Len(all.files))
            page == IF count > 0 /\ Len(tail) > count
                    THEN Sub(tail, 0, count) ELSE tail
        IN  [files |-> page,
             err |-> IF Len(page) = 0 THEN "EOF" ELSE "nil",
             asset |-> [a EXCEPT
                !.readDirOffset = Advance(a.readDirOffset, Len(page)),
                !.seen = IF Len(page) = 0 THEN <<>> ELSE @ \o page]]

\* func (a *asset) Readdir(count int), all being the list its loops built
Readdir(a, count, all) ==
    IF ~IsDir(a)
    THEN [files |-> <<>>, err |-> "EOF",
          asset |-> [a EXCEPT !.readDirOffset = 0, !.seen = <<>>]]
    ELSE ReaddirPage(a, count, all)

---------------------------------------------------------------------------
(* Inputs of the file system *)

\* the keys a collection may hold: with and without a leading slash (Pack
\* stores both for a directory), nested one and two levels, sharing a
\* segment, and sharing only a string prefix with another key's directory
KeyUniverse ==
    << <<"/", "a", "/", "b">>,
       <<"/", "a", "/", "c", "/", "d">>,
       <<"/", "a", "/", "c", "/", "e">>,
       <<"/", "a", "b", "/", "x">>,
       <<"a", "/", "b">>,
       <<"/", "a", "/", "g">> >>

\* the blob stored under each key of KeyUniverse: three bytes, an empty
\* slice, a nil slice
BlobTable ==
    << Slice(<<11, 22, 33>>), Slice(<<>>), NilSlice,
       Slice(<<44, 55, 66>>), Slice(<<>>), NilSlice >>

\* the collections: at most MaxKeys of the keys, each with its blob
Stores ==
    {[k \in {KeyUniverse[i] : i \in S} |->
         BlobTable[CHOOSE i \in S : KeyUniverse[i] = k]] :
       S \in {T \in SUBSET (1..Len(KeyUniverse)) : Cardinality(T) <= MaxKeys}}

\* the paths asked for: every key, the directories above them with and
\* without the slashes of the keys, the root, and paths that do not exist
QueryPaths ==
    {KeyUniverse[i] : i \in 1..Len(KeyUniverse)} \cup
    { <<>>, <<"/">>, <<"/", "a">>, <<"a">>, <<"/", "a", "/">>,
      <<"/", "a", "/", "c">>, <<"/", "a", "b">>, <<"/", "z">>,
      <<"/", "a", "/", "b", "/", "c">> }

\* the offsets handed to Seek, over the whole range of an int
Offsets == {MinInt, -100, -1, 0, 1, MaxInt}
Whences == 0..2
Counts == {-1, 0, 1, 2}

\* a buffer of n bytes, as the caller hands it to Read
Buffer(n) == [i \in 1..n |-> 238]

\* the file system is exercised alone, through one variable of the caller
InitFS ==
    /\ key = <<>>
    /\ buf = <<>>
    /\ dataLen = 0
    /\ msg = NilSlice
    /\ sent = NilSlice
    /\ tampered = 0
    /\ store \in Stores
    /\ files = [h \in {1} |-> NoFile]
    /\ last = NoCall

\* files[h], err := store.Open(path)
DoOpen(h) ==
    /\ ~IsOpen(files[h])
    /\ \E path \in QueryPaths, order \in Perms(DOMAIN store) :
          LET r == Open(store, path, order)
          IN  /\ files' = [files EXCEPT ![h] = r.asset]
              /\ last' = [op |-> "Open", h |-> h, path |-> path,
                          asset |-> r.asset, err |-> r.err]
    /\ UNCHANGED <<cipherVars, store>>

\* info, _ := files[h].Stat(), and what info reports
DoStat(h) ==
    /\ IsOpen(files[h])
    /\ last' = [op |-> "Stat", h |-> h, size |-> Size(files[h]),
                mode |-> Mode(files[h]), isDir |-> IsDir(files[h]),
                name |-> Name(files[h])]
    /\ UNCHANGED <<cipherVars, store, files>>

\* n, err := files[h].Read(p)
DoReadCopyBack(h) ==
    /\ IsOpen(files[h])
    /\ \E n \in 0..MaxBuf :
          LET r == Read(files[h], Buffer(n))
              a == files[h]
          IN  /\ files' = [files EXCEPT ![h] = r.asset]
              /\ last' = [op |-> "Read", h |-> h, pre |-> files[h],
                          buffer |-> Buffer(n), n |-> r.n, err |-> r.err,
                          p |-> r.p]
              /\ store' = IF a.path \in DOMAIN store /\ r.n > 0
                          THEN [store EXCEPT ![a.path] =
                                  Slice([i \in 1..Len(a.data.bytes) |->
                                     IF i > a.position /\ i <= a.position + r.n
                                     THEN Buffer(n)[i - a.position]
                                     ELSE a.data.bytes[i]])]
                          ELSE store
    /\ UNCHANGED cipherVars
DoRead(h) ==
    /\ IsOpen(files[h])
    /\ \E n \in 0..MaxBuf :
          LET r == Read(files[h], Buffer(n))
          IN  /\ files' = [files EXCEPT ![h] = r.asset]
              /\ last' = [op |-> "Read", h |-> h, pre |-> files[h],
                          buffer |-> Buffer(n), n |-> r.n, err |-> r.err,
                          p |-> r.p]
    /\ UNCHANGED <<cipherVars, store>>

\* n, err := files[h].Seek(offset, whence)
DoSeekShared(h) ==
    /\ IsOpen(files[h])
    /\ \E offset \in Offsets, whence \in Whences :
          LET r == Seek(files[h], offset, whence)
          IN  /\ files' = [g \in DOMAIN files |->
                              IF g = h THEN r.asset
                              ELSE IF IsOpen(files[g]) /\ files[g].path = files[h].path
                                   THEN [files[g] EXCEPT !.position = r.n]
                                   ELSE files[g]]
              /\ last' = [op |-> "Seek", h |-> h, pre |-> files[h],
                          offset |-> offset, whence |-> whence,
                          n |-> r.n, err |-> r.err]
    /\ UNCHANGED <<cipherVars, store>>
DoSeek(h) ==
    /\ IsOpen(files[h])
    /\ \E offset \in Offsets, whence \in Whences :
          LET r == Seek(files[h], offset, whence)
          IN  /\ files' = [files EXCEPT ![h] = r.asset]
              /\ last' = [op |-> "Seek", h |-> h, pre |-> files[h],
                          offset |-> offset, whence |-> whence,
                          n |-> r.n, err |-> r.err]
    /\ UNCHANGED <<cipherVars, store>>

\* infos, err := files[h].Readdir(count)
DoReaddir(h) ==
    /\ IsOpen(files[h])
    /\ \E count \in Counts, all \in Listings(store, files[h]) :
          LET r == Readdir(files[h], count, all)
          IN  /\ files' = [files EXCEPT ![h] = r.asset]
              /\ last' = [op |-> "Readdir", h |-> h, pre |-> files[h],
                          count |-> count, files |-> r.files, err |-> r.err]
    /\ UNCHANGED <<cipherVars, store>>

\* files[h].Close(): returns nil and leaves the asset as it is
DoClose(h) ==
    /\ IsOpen(files[h])
    /\ last' = [op |-> "Close", h |-> h, err |-> "nil"]
    /\ UNCHANGED <<cipherVars, store, files>>

OpenFile == \E h \in DOMAIN files : DoOpen(h)
StatFile == \E h \in DOMAIN files : DoStat(h)
ReadFile == \E h \in DOMAIN files : DoRead(h)
SeekFile == \E h \in DOMAIN files : DoSeek(h)
ReaddirFile == \E h \in DOMAIN files : DoReaddir(h)
CloseFile == \E h \in DOMAIN files : DoClose(h)

NextFS ==
    \/ OpenFile
    \/ StatFile
    \/ ReadFile
    \/ SeekFile
    \/ ReaddirFile
    \/ CloseFile

SpecFS == InitFS /\ [][NextFS]_vars

\* two variables of the caller, each holding what an Open returned
Handles == {1, 2}

\* the collection two files are opened on: one file of three bytes in a
\* directory
Stores2 == {s \in Stores : DOMAIN s = {KeyUniverse[1]}}

\* the file system used through two files at once
InitFS2 ==
    /\ key = <<>>
    /\ buf = <<>>
    /\ dataLen = 0
    /\ msg = NilSlice
    /\ sent = NilSlice
    /\ tampered = 0
    /\ store \in Stores2
    /\ files = [h \in Handles |-> NoFile]
    /\ last = NoCall

SpecFS2 == InitFS2 /\ [][NextFS]_vars

---------------------------------------------------------------------------
(* AssetCollection.Decrypt *)

RECURSIVE DecryptFrom(_, _, _, _)
RECURSIVE Stored(_, _, _, _, _)
\* for k, v := range *c { decrypted, err := Decrypt(key, v); ...;
\* (*c)[k] = decrypted }, from the i-th key of the order on.  v shares its
\* bytes with the blob in the map, so what Decrypt wrote into v before a
\* panic is in the collection.
DecryptFrom(c, k, order, i) ==
    IF i > Len(order) THEN [store |-> c, err |-> "nil"]
    ELSE Stored(c, k, order, i, Decrypt(k, c[order[i]]))
\* the rest of the loop body, r being what Decrypt returned and did to v
Stored(c, k, order, i, r) ==
    IF r.err = "panic"
    THEN [store |-> [c EXCEPT ![order[i]] = r.data], err |-> "panic"]
    ELSE IF r.err # "nil"
    THEN [store |-> c, err |-> r.err]
    ELSE DecryptFrom([c EXCEPT ![order[i]] = r.output], k, order, i + 1)

\* func (c *AssetCollection) Decrypt(key []byte), the range loop visiting
\* the keys in the given order
DecryptAll(c, k, order) == DecryptFrom(c, k, order, 1)

\* the key the packer encrypted with
PackKey == Pattern(16, 40, 3)

\* what a stored blob may be: Encrypt's output for an empty, a short and a
\* one-block file; such an output with its last bit flipped; a blob that was
\* never encrypted; a nil blob; blobs made with the key whose padding count
\* is 0 or exceeds their length
CollBlobs ==
    {Encrypt(PackKey, p, Len(p), Delivered(Pattern(BlockSize, 200, 5))).output :
        p \in {Pattern(n, 0, 1) : n \in {0, 3, BlockSize}}}
    \cup {Slice([b EXCEPT ![Len(b)] = Xor8(@, 1, 8)]) :
            b \in {Encrypt(PackKey, <<7>>, 1, Delivered(Pattern(BlockSize, 0, 0))).output.bytes}}
    \cup {Slice(<<11, 22, 33>>), NilSlice}
    \cup {Forge(PackKey, Pattern(BlockSize, 0, 0),
                [Pattern(BlockSize, 5, 3) EXCEPT ![BlockSize] = pad]) : pad \in {0, 255}}

\* the paths of a packed collection
CollPaths == {KeyUniverse[i] : i \in 1..Min(MaxPacked, Len(KeyUniverse))}

\* a packed collection and the key handed to its Decrypt: the packer's key,
\* another valid key, a key of invalid length
InitColl ==
    /\ key \in {PackKey, Pattern(24, 40, 3), Pattern(15, 40, 3)}
    /\ buf = <<>>
    /\ dataLen = 0
    /\ msg = NilSlice
    /\ sent = NilSlice
    /\ tampered = 0
    /\ \E S \in SUBSET CollPaths : store \in [S -> CollBlobs]
    /\ files = <<>>
    /\ last = NoCall

\* err := store.Decrypt(key)
DoDecryptAll ==
    /\ last.op = "none"
    /\ \E order \in Perms(DOMAIN store) :
          \E r \in {DecryptAll(store, key, order)} :
              /\ store' = r.store
              /\ last' = [op |-> "DecryptAll", before |-> store,
                          order |-> order, err |-> r.err]
    /\ UNCHANGED <<cipherVars, files>>

NextColl == DoDecryptAll

SpecColl == InitColl /\ [][NextColl]_vars

---------------------------------------------------------------------------
(* Claims about the cipher, checked under SpecCipher *)

\* the plaintext the caller handed to Encrypt
Plaintext == Sub(buf, 0, dataLen)

\* Decrypt has just been applied to exactly what Encrypt returned
DecryptedSent == last.op = "Decrypt" /\ ~sent.nil /\ last.input = sent

\* positions at which two byte strings of one length differ
Diff(a, b) == {i \in 1..Len(a) : a[i] # b[i]}

\* C1 (as claimed): for every key of 16, 24 or 32 bytes and every
\* plaintext, Encrypt succeeds, and Decrypt of what it returned under the
\* same key succeeds and returns exactly the plaintext.
C1_RoundTrip ==
    /\ (last.op = "Encrypt" /\ ValidKey(key)) => last.err = "nil"
    /\ DecryptedSent =>
          /\ last.err = "nil"
          /\ last.output = Slice(Plaintext)

\* C1 (amended): for every key of 16, 24 or 32 bytes and every plaintext,
\* Encrypt succeeds when the random source delivers the IV and otherwise
\* returns the source's error and no output; Decrypt of what Encrypt
\* returned under the same key succeeds and returns exactly the plaintext.
C1_RoundTripOfOutput ==
    /\ (last.op = "Encrypt" /\ ValidKey(key)) =>
          /\ last.err = last.rnd.err
          /\ last.output.nil <=> last.err # "nil"
    /\ DecryptedSent =>
          /\ last.err = "nil"
          /\ last.output = Slice(Plaintext)

\* a round trip of a plaintext of exactly one block has been made
C1_Witness ==
    /\ DecryptedSent
    /\ dataLen = BlockSize
    /\ last.output = Slice(Plaintext)

\* C5: a Decrypt input of valid length under a valid key whose last 32 bytes
\* are not the HMAC of the bytes before them is refused with "Invalid HMAC",
\* yields no plaintext and is left as it was; in particular a ciphertext of
\* Encrypt changed in any way that keeps its length is refused.
C5_AuthenticateThenDecrypt ==
    last.op = "Decrypt" =>
        LET d == last.input.bytes
            n == Len(d)
            lengthOK == n >= 64 /\ (n - 32) % 16 = 0
        IN  /\ (/\ lengthOK
                /\ ValidKey(key)
                /\ SubSeq(d, n - 31, n) # HMAC(key, SubSeq(d, 1, n - 32)))
               => /\ last.err = "Invalid HMAC"
                  /\ last.output = NilSlice
                  /\ msg = last.input
            /\ (/\ ~sent.nil
                /\ n = Len(sent.bytes)
                /\ Diff(d, sent.bytes) # {})
               => /\ last.err = "Invalid HMAC"
                  /\ last.output = NilSlice
                  /\ msg = last.input

\* a ciphertext with one bit of its CBC part flipped was refused
C5_Witness ==
    /\ last.op = "Decrypt"
    /\ ~sent.nil
    /\ Diff(last.input.bytes, sent.bytes) = {BlockSize + 1}
    /\ last.err = "Invalid HMAC"

\* C6: a Decrypt input shorter than 64 bytes, or whose length less 32 is not
\* a multiple of 16, is refused with the invalid-length error whatever the
\* key (valid or not), with no output, and is left as it was.
C6_LengthFirst ==
    last.op = "Decrypt" =>
        LET n == Len(last.input.bytes)
        IN  (n < 64 \/ (n - 32) % 16 # 0)
            => /\ last.err = "Invalid data length"
               /\ last.output = NilSlice
               /\ msg = last.input

\* a 63-byte input was refused for its length under a key of invalid length
C6_Witness ==
    /\ last.op = "Decrypt"
    /\ Len(last.input.bytes) = 63
    /\ ~ValidKey(key)
    /\ last.err = "Invalid data length"

\* C7 (as claimed): under a valid key Encrypt succeeds on a plaintext of
\* length L with 16 + 16 * (L div 16 + 1) + 32 bytes: the IV, then the CBC
\* encryption of the plaintext followed by 16 - L mod 16 bytes of that
\* value, then the HMAC of everything before it; the length passes
\* Decrypt's length test.
C7_Layout ==
    (last.op = "Encrypt" /\ ValidKey(key)) =>
        LET out == last.output.bytes
            n == Len(out)
            blocks == (dataLen \div 16) + 1
            pad == 16 - (dataLen % 16)
        IN  /\ last.err = "nil"
            /\ ~last.output.nil
            /\ n = 16 + 16 * blocks + 32
            /\ n >= 64 /\ (n - 32) % 16 = 0
            /\ SubSeq(out, 1, 16) = last.rnd.iv
            /\ CBCDecrypt(NewCipher(key), last.rnd.iv, SubSeq(out, 17, n - 32))
                  = Plaintext \o [i \in 1..pad |-> pad]
            /\ SubSeq(out, n - 31, n) = HMAC(key, SubSeq(out, 1, n - 32))

\* C7 (amended): under a valid key, when the random source delivers the
\* IV, Encrypt succeeds on a plaintext of length L with 16 + 16 * (L div 16
\* + 1) + 32 bytes: the IV, then the CBC encryption of the plaintext
\* followed by 16 - L mod 16 bytes of that value, then the HMAC of
\* everything before it; the length passes Decrypt's length test.  When the
\* source fails, Encrypt returns its error and no output.
C7_LayoutOfOutput ==
    (last.op = "Encrypt" /\ ValidKey(key)) =>
        IF last.rnd.err = "nil"
        THEN C7_Layout
        ELSE last.err = last.rnd.err /\ last.output = NilSlice

\* a plaintext of exactly 16 bytes was encrypted to 16 + 32 + 32 bytes
C7_Witness ==
    /\ last.op = "Encrypt"
    /\ dataLen = BlockSize
    /\ Len(last.output.bytes) = 80

---------------------------------------------------------------------------
(* Claims about the file system, checked under SpecFS *)

\* the segments of a path, as the specification speaks of them
Segments(p) == pathComponents(p)

\* key k lies below the path with segments base, by n segments or more
Below(k, base, n) ==
    /\ Len(Segments(k)) >= Len(base) + n
    /\ SubSeq(Segments(k), 1, Len(base)) = base

\* C2: Open depends on the store and the path only.  It returns an asset
\* over the blob when the path is a key; else an asset without data (a
\* directory) when some key has more segments than the path and the path's
\* segments are its first ones; else ErrNotExist.  (What the asset then
\* reports about itself is C10.)
C2_OpenResolution ==
    last.op = "Open" =>
        LET p == last.path
        IN  IF p \in DOMAIN store
            THEN /\ last.err = "nil"
                 /\ last.asset = NewAsset(p, store[p])
                 /\ files[last.h] = last.asset
            ELSE IF \E k \in DOMAIN store : Below(k, Segments(p), 1)
            THEN /\ last.err = "nil"
                 /\ last.asset = NewAsset(p, NilSlice)
                 /\ files[last.h] = last.asset
            ELSE /\ last.err = "ErrNotExist"
                 /\ ~IsOpen(files[last.h])

\* the root of a store whose only keys lie two and three levels down was
\* opened as a directory
C2_Witness ==
    /\ last.op = "Open"
    /\ last.path = <<>>
    /\ DOMAIN store # {}
    /\ \A k \in DOMAIN store : Len(Segments(k)) >= 2
    /\ last.err = "nil"
    /\ last.asset.data.nil

\* the immediate children of the directory with segments base: the keys one
\* segment below it, and the segments under which deeper keys lie
ChildLeaves(c, base) ==
    {k \in DOMAIN c : Len(Segments(k)) = Len(base) + 1 /\ Below(k, base, 1)}
ChildDirs(c, base) ==
    {Segments(k)[Len(base) + 1] : k \in {x \in DOMAIN c : Below(x, base, 2)}}

\* how often entries satisfying Test occur in a list of entries
Count(entries, Test(_)) == Cardinality({i \in 1..Len(entries) : Test(entries[i])})

\* the entries are exactly the children of the directory at path dir: each
\* key one segment down once, as an entry over its blob, and one entry
\* without data for each segment with deeper keys
ListsChildren(entries, c, dir) ==
    LET base == Segments(dir)
    IN  /\ Len(entries) = Cardinality(ChildLeaves(c, base))
                            + Cardinality(ChildDirs(c, base))
        /\ \A k \in ChildLeaves(c, base) :
              Count(entries, LAMBDA e : e = Entry(k, c[k])) = 1
        /\ \A seg \in ChildDirs(c, base) :
              Count(entries, LAMBDA e : /\ e.data.nil
                                         /\ e.path \notin ChildLeaves(c, base)
                                         /\ Segments(e.path) = Append(base, seg)) = 1

\* a listing pass over a directory that Open resolved has just ended: this
\* Readdir returned io.EOF, the calls before it returned last.pre.seen
PassEnded ==
    /\ last.op = "Readdir"
    /\ last.err = "EOF"
    /\ last.pre.path \notin DOMAIN store
    /\ IsDir(last.pre)

\* C3 (as claimed): the entries Readdir returns for an opened directory, over
\* all calls up to io.EOF, are exactly one entry per immediate child: one per
\* key one segment below the directory and one directory entry per segment
\* with deeper keys.
C3_ListingExact ==
    PassEnded => ListsChildren(last.pre.seen, store, last.pre.path)

\* C4 (as claimed): Readdir(1) on a directory with n children returns one
\* entry that no earlier call of the pass returned while fewer than n have
\* been returned, and then no entry and io.EOF with the offset back at 0.
C4_Pagination ==
    (last.op = "Readdir" /\ last.count = 1 /\ IsDir(last.pre)) =>
        LET n == Len((CHOOSE l \in Listings(store, last.pre) : TRUE).files)
            k == last.pre.readDirOffset
        IN  IF k < n
            THEN /\ last.err = "nil"
                 /\ Len(last.files) = 1
                 /\ \A i \in 1..Len(last.pre.seen) : last.pre.seen[i] # last.files[1]
                 /\ files[last.h].readDirOffset = k + 1
            ELSE /\ last.err = "EOF"
                 /\ last.files = <<>>
                 /\ files[last.h].readDirOffset = 0

\* the position Seek is claimed to reach: the exact sum, clamped
Saturated(a, offset, whence) ==
    LET len == Len(a.data.bytes)
        base == CASE whence = 0 -> 0 [] whence = 1 -> a.position [] whence = 2 -> len
        t == base + offset
    IN  IF t < 0 THEN 0 ELSE IF t > len THEN len ELSE t

\* C8 (as claimed): Seek on a file never fails, moves the cursor to
\* base + offset clamped into 0..len(blob) (the sum taken exactly), and
\* returns the new cursor, for every offset an int64 holds.
C8_SeekSaturates ==
    (last.op = "Seek" /\ last.pre.path \in DOMAIN store) =>
        /\ last.err = "nil"
        /\ last.n = Saturated(last.pre, last.offset, last.whence)
        /\ files[last.h].position = last.n

\* C9: Read on a file with cursor c over a blob of L bytes copies the
\* n = min(len(p), L - c) bytes from c on into the start of p, moves the
\* cursor to c + n, and returns io.EOF exactly when p is not empty and
\* c = L.  So the Reads since Open (no Seek between) have delivered the
\* blob up to the cursor, and all of it once io.EOF comes.
C9_Read ==
    (last.op = "Read" /\ last.pre.path \in DOMAIN store) =>
        LET blob == store[last.pre.path].bytes
            c == last.pre.position
            L == Len(blob)
            n == IF Len(last.buffer) < L - c THEN Len(last.buffer) ELSE L - c
            a == files[last.h]
        IN  /\ last.n = n
            /\ last.p = SubSeq(blob, c + 1, c + n)
                          \o SubSeq(last.buffer, n + 1, Len(last.buffer))
            /\ a.position = c + n
            /\ (last.err = "EOF") = (Len(last.buffer) > 0 /\ c = L)
            /\ last.err \in {"EOF", "nil"}
            /\ a.pure => a.got = SubSeq(blob, 1, a.position)
            /\ (a.pure /\ last.err = "EOF") => a.got = blob

\* a blob of three bytes was read to its end in pieces, then io.EOF
C9_Witness ==
    /\ last.op = "Read"
    /\ last.pre.path \in DOMAIN store
    /\ last.err = "EOF"
    /\ files[last.h].pure
    /\ files[last.h].got = <<11, 22, 33>>

\* C10 (as claimed): an asset opened on a key reports no directory, mode
\* 0444 and the length of its blob, whatever the blob; an asset opened on a
\* path that is no key reports a directory of size 0.
C10_StatFollowsResolution ==
    last.op = "Stat" =>
        LET a == files[last.h]
        IN  IF a.path \in DOMAIN store
            THEN /\ ~last.isDir
                 /\ last.mode = [dir |-> FALSE, perm |-> "0444"]
                 /\ last.size = Len(store[a.path].bytes)
            ELSE /\ last.isDir
                 /\ last.mode = [dir |-> TRUE, perm |-> "0444"]
                 /\ last.size = 0

---------------------------------------------------------------------------
(* Further claims about the cipher, checked under SpecCipher *)

\* the input of the last Decrypt passed the length, key and MAC tests
Authenticated ==
    /\ last.op = "Decrypt"
    /\ ~BadLength(Len(last.input.bytes))
    /\ ValidKey(key)
    /\ MacOK(key, last.input.bytes)

\* the last byte of the CBC-decrypted data of the last Decrypt's input
PaddingCount ==
    LET d == last.input.bytes
        plain == CBCDecrypt(NewCipher(key), SubSeq(d, 1, 16),
                            SubSeq(d, 17, Len(d) - 32))
    IN  plain[Len(plain)]

\* C11 (as claimed): when the input passes the length, key and MAC tests and
\* the padding count is 0 or more than 16, Decrypt returns an error: it
\* neither returns a byte sequence nor panics.
C11_PaddingValidated ==
    (Authenticated /\ (PaddingCount = 0 \/ PaddingCount > 16)) =>
        /\ last.err \notin {"nil", "panic"}
        /\ last.output = NilSlice

\* C18 (as claimed): Encrypt leaves every byte of the caller's array, inside
\* and beyond the plaintext, as it was, whether it succeeds or fails.
C18_EncryptLeavesCallerData ==
    last.op = "Encrypt" => buf = last.before

---------------------------------------------------------------------------
(* Claims about AssetCollection.Decrypt, checked under SpecColl *)

\* what Decrypt makes of the blob the collection held under path p
Outcome(p) == Decrypt(key, last.before[p])

\* the place in the order of the first entry whose Decrypt does not succeed,
\* one past the end when all succeed
FirstFailing ==
    LET bad == {i \in 1..Len(last.order) : Outcome(last.order[i]).err # "nil"}
    IN  IF bad = {} THEN Len(last.order) + 1
        ELSE CHOOSE i \in bad : \A j \in bad : i <= j

\* C12 (as claimed): the collection's Decrypt stops at the first entry whose
\* Decrypt fails and returns its error; the entries before it hold their
\* plaintext, that entry and the entries after it hold their original
\* bytes; nil is returned when none fails; the keys stay the same.
C12_CollectionDecrypt ==
    last.op = "DecryptAll" =>
        LET f == FirstFailing
            o == last.order
        IN  /\ DOMAIN store = DOMAIN last.before
            /\ \A i \in 1..Len(o) :
                  store[o[i]] = IF i < f THEN Outcome(o[i]).output
                                ELSE last.before[o[i]]
            /\ last.err = IF f > Len(o) THEN "nil" ELSE Outcome(o[f]).err
            /\ last.err # "panic"

---------------------------------------------------------------------------
(* Claims about files used side by side, checked under SpecFS2 *)

\* the call just made left every file but its own as it was
OthersUntouched == \A g \in DOMAIN files : g # last'.h => files'[g] = files[g]

\* an Open that succeeded returned a file at position 0 and listing offset 0
OpenedFresh ==
    (last'.op = "Open" /\ last'.err = "nil") =>
        /\ files'[last'.h].position = 0
        /\ files'[last'.h].readDirOffset = 0

\* what the call just made returned is what the same call returns on its
\* file alone: it is a function of the collection and of that file's own
\* state before the call
AsIfAlone ==
    /\ last'.op = "Read" =>
          LET r == Read(files[last'.h], last'.buffer)
          IN  last'.n = r.n /\ last'.err = r.err /\ last'.p = r.p
    /\ last'.op = "Seek" =>
          LET r == Seek(files[last'.h], last'.offset, last'.whence)
          IN  last'.n = r.n /\ last'.err = r.err
    /\ last'.op = "Readdir" =>
          \E all \in Listings(store, files[last'.h]) :
              LET r == Readdir(files[last'.h], last'.count, all)
              IN  last'.files = r.files /\ last'.err = r.err

\* C13: every Open returns a fresh file with position 0 and listing offset
\* 0, and a Read, Seek or Readdir on one file never changes the position or
\* the listing offset of another, two files on the same path included, so
\* each file's results are those it gets when used alone.
C13_IndependentHandles ==
    [][OthersUntouched /\ OpenedFresh /\ AsIfAlone]_vars

\* two files opened on the same path, one moved by Read or Seek and the
\* other not, and two on the same directory at different listing offsets
C13_Witness ==
    /\ IsOpen(files[1]) /\ IsOpen(files[2])
    /\ files[1].path = files[2].path
    /\ \/ files[1].position # files[2].position
       \/ files[1].readDirOffset # files[2].readDirOffset
    /\ last.op \in {"Read", "Seek", "Readdir"}

---------------------------------------------------------------------------
(* Claims about the position and the collection, checked under SpecFS *)

\* C14: after any sequence of Read and Seek calls, with any buffer size,
\* offset and whence, the position of a file that is not a directory is at
\* least 0 and at most the length of its blob, and no Read indexes the blob
\* out of range.
C14_PositionInRange ==
    /\ \A h \in DOMAIN files :
          (IsOpen(files[h]) /\ ~IsDir(files[h])) =>
              /\ 0 <= files[h].position
              /\ files[h].position <= Len(files[h].data.bytes)
    /\ last.op = "Read" => last.err # "panic"

\* a Seek on a file that had been moved forward asked for a position before
\* the start or past the end, the sum having overflowed or not
C14_Witness ==
    /\ last.op = "Seek"
    /\ ~IsDir(last.pre)
    /\ last.pre.position > 0
    /\ LET t == SeekTarget(last.pre, last.offset, last.whence)
       IN  t < 0 \/ t > Len(last.pre.data.bytes)

\* C15: Open, Stat, Read, Seek, Readdir and Close never change the
\* collection: after any sequence of them it has the same keys and every
\* blob the same bytes as before.
C15_StoreReadOnly == [][store' = store]_vars

\* a Read has delivered bytes of a blob, on a collection of several keys
C15_Witness ==
    /\ last.op = "Read"
    /\ last.n > 0
    /\ last.p # last.buffer
    /\ Cardinality(DOMAIN store) >= 2

\* the entries of a list, as a set
Entries(l) == {l[i] : i \in 1..Len(l)}

\* the children of the directory a Readdir was called on, in one of the
\* orders its loops may build them
Children == (CHOOSE l \in Listings(store, last.pre) : TRUE).files

\* a Readdir with count <= 0 on a directory that has children left to return
UnboundedCall ==
    /\ last.op = "Readdir"
    /\ last.count <= 0
    /\ IsDir(last.pre)
    /\ last.pre.readDirOffset < Len(Children)

\* a Readdir on a directory all of whose children have been returned
CallAfterAll ==
    /\ last.op = "Readdir"
    /\ IsDir(last.pre)
    /\ Len(Children) > 0
    /\ last.pre.readDirOffset = Len(Children)

\* C16 (as claimed): on a directory with n children of which k < n were
\* returned by earlier calls, Readdir with count <= 0 returns in one call
\* exactly the n - k children not yet returned, with a nil error, and the
\* call after it returns no entry, io.EOF, and puts the offset back to 0.
C16_UnboundedListing ==
    /\ UnboundedCall =>
          /\ last.err = "nil"
          /\ Len(last.files) = Len(Children) - last.pre.readDirOffset
          /\ Entries(last.files) = Entries(Children) \ Entries(last.pre.seen)
          /\ files[last.h].readDirOffset = Len(Children)
    /\ CallAfterAll =>
          /\ last.err = "EOF"
          /\ last.files = <<>>
          /\ files[last.h].readDirOffset = 0

\* the invariant claimed of the keys: each is one or more segments separated
\* by slashes, none of them empty
KeyInvariant(c) ==
    \A k \in DOMAIN c :
        /\ k # <<>>
        /\ \A i \in 1..Len(Split(k, 1, <<>>)) : Split(k, 1, <<>>)[i] # <<>>

\* the first Readdir on a directory that Open resolved for a path that is
\* not a key
FirstListing ==
    /\ last.op = "Readdir"
    /\ IsDir(last.pre)
    /\ last.pre.path \notin DOMAIN store
    /\ last.pre.readDirOffset = 0
    /\ last.pre.seen = <<>>

\* C17 (as claimed): on a store whose keys satisfy the key invariant, the
\* first Readdir on a directory Open resolved returns at least one entry,
\* whatever leading or trailing slashes the path asked for carries.
C17_OpenReaddirAgree ==
    (KeyInvariant(store) /\ FirstListing) =>
        /\ last.err = "nil"
        /\ Len(last.files) >= 1

====
